---- MODULE Spec2Model ----
(***************************************************************************)
(* decoder.py: one run of main().  The foreground thread walks             *)
(* main -> extract_audio -> transcribe_audio; the background thread is     *)
(* TranscriptionProgressTracker._track_progress.  Floating-point seconds   *)
(* are modelled as exact rationals over integer microseconds and integer   *)
(* second durations; int() is truncation toward zero.                      *)
(***************************************************************************)
EXTENDS Integers, Sequences, FiniteSets, TLC

VARIABLES
    pc,            \* position of the foreground thread
    mp4_files,     \* glob.glob("*.mp4"), in enumeration order
    video_path,    \* main: mp4_files[0]
    audio_path,    \* main: f"{base_name}.mp3"
    text_path,     \* main: f"{base_name}_transcription.txt"
    probe_out,     \* get_video_duration: result.stdout of ffprobe
    duration,      \* extract_audio: duration (whole seconds)
    ebar,          \* extract_audio: progress_bar (tqdm)
    time_ms,       \* extract_audio: the last parsed out_time_ms value
    ext_progress,  \* extract_audio: the last computed progress
    pct_computed,  \* extract_audio: line 81 has been executed in this run
    audio_exists,  \* the file output_audio_path exists
    marker,        \* the file temp_file: "absent", "stale" or "written"
    text_exists,   \* the file output_text_path exists
    model_loaded,  \* whisper.load_model has returned
    running,       \* TranscriptionProgressTracker.running
    tbar,          \* TranscriptionProgressTracker.progress_bar (tqdm)
    last_size,     \* TranscriptionProgressTracker.last_size
    tpc,           \* position of the _track_progress thread
    progress,      \* _track_progress: progress
    since_update,  \* _track_progress: time.time() - last_update, in poll ticks
    exc,           \* transcribe_audio: the exception raised inside the try block
    main_err,      \* the exception that propagated out of main
    exit_status    \* exit status of the process, NotExited while it runs

vars == <<pc, mp4_files, video_path, audio_path, text_path, probe_out, duration,
          ebar, time_ms, ext_progress, pct_computed, audio_exists, marker,
          text_exists, model_loaded, running, tbar, last_size, tpc, progress,
          since_update, exc, main_err, exit_status>>

extractVars == <<probe_out, duration, ebar, time_ms, ext_progress, pct_computed>>
fileVars == <<audio_exists, marker, text_exists>>
pathVars == <<mp4_files, video_path, audio_path, text_path>>
trackerVars == <<running, tbar, last_size>>
pollerVars == <<tpc, progress, since_update>>
errVars == <<exc, main_err, exit_status>>

----------------------------------------------------------------------------
(* Program constants *)

\* tqdm(total=100), min(..., 100), "progress < 100"
BarTotal == 100

\* "1 if progress <= 95 else 0"
HeuristicCap == 95

\* time_ms / 1000000
MicrosPerSecond == 1000000

\* f.write("1" * 100)
MarkerSize == 100

\* sys.exit(1)
ExitFailure == 1

\* "current_time - last_update >= 1.0" with time.sleep(0.5): two poll ticks
HeuristicPeriod == 2

(* Bounds of the model *)

\* the largest probed duration, in seconds
MaxDuration == 10

\* out_time_ms markers are multiples of a quarter second, up to MaxMarkerK quarters
MaxMarkerK == 44

\* and down to -MaxNegK quarters
MaxNegK == 2

\* one time.sleep(0.5) lasts at most this many poll ticks
MaxSleepTicks == 2

\* at most this many *.mp4 files in the directory
MaxFiles == 2

NotExited == -1
ExitInterrupt == 130
NoValue == -1

----------------------------------------------------------------------------
(* Values *)

Min(a, b) == IF a <= b THEN a ELSE b

\* Python int() of the quotient a / b (b > 0): truncation toward zero
TruncDiv(a, b) == IF a >= 0 THEN a \div b ELSE -((-a) \div b)

\* what ffprobe can print: nothing, a non-numeric word, or a number of seconds
ProbeOutputs ==
    {[numeric |-> FALSE, text |-> t, val |-> 0] : t \in {"", "N/A"}}
    \cup {[numeric |-> TRUE, text |-> "num", val |-> v] : v \in -1..MaxDuration}

\* the lines ffmpeg can write on its -progress feed
MarkerValues == {k * (MicrosPerSecond \div 4) : k \in -MaxNegK..MaxMarkerK}
FeedLines ==
    {[key |-> "out_time_ms", numeric |-> TRUE, val |-> v] : v \in MarkerValues}
    \cup {[key |-> "out_time_ms", numeric |-> FALSE, val |-> 0],
          [key |-> "frame", numeric |-> TRUE, val |-> 0]}

\* float(s): a value, or ValueError
ParseFloat(s) == IF s.numeric THEN [ok |-> TRUE, val |-> s.val]
                 ELSE [ok |-> FALSE, val |-> 0]

FileNames == {"a.mp4", "b.mp4"}
Listings == {s \in UNION {[1..n -> FileNames] : n \in 0..MaxFiles} :
                \A i, j \in 1..Len(s) : i # j => s[i] # s[j]}

\* Path(video_path).stem
Stem(p) == IF p = "a.mp4" THEN "a" ELSE IF p = "b.mp4" THEN "b" ELSE "none"

NoBar == [state |-> "none", n |-> 0]
\* tqdm(total=100, ...)
NewBar == [state |-> "open", n |-> 0]
\* tqdm.update(delta): a closed (disabled) bar ignores it, an open one adds delta to n
tqdm_update(bar, delta) == IF bar.state = "open" THEN [bar EXCEPT !.n = bar.n + delta]
                           ELSE bar
\* tqdm.close()
tqdm_close(bar) == IF bar.state = "open" THEN [bar EXCEPT !.state = "closed"] ELSE bar

\* ComputeProgress with the feed read as milliseconds (time_ms / 1000)
ComputeProgress_millis(e, d) == Min(TruncDiv(e * 100, 1000 * d), BarTotal)

\* line 80-81: min(int((time_ms / 1000000 / duration) * 100), 100)
ComputeProgress(e, d) == Min(TruncDiv(e * 100, MicrosPerSecond * d), BarTotal)

----------------------------------------------------------------------------
Init ==
    /\ pc = "main_glob"
    /\ mp4_files \in Listings
    /\ video_path = "none"
    /\ audio_path = <<"none", "">>
    /\ text_path = <<"none", "">>
    /\ probe_out = [numeric |-> FALSE, text |-> "unset", val |-> 0]
    /\ duration = NoValue
    /\ ebar = NoBar
    /\ time_ms = NoValue /\ ext_progress = NoValue
    /\ pct_computed = FALSE
    /\ audio_exists = FALSE
    /\ marker \in {"absent", "stale"}
    /\ text_exists = FALSE
    /\ model_loaded = FALSE
    /\ running = FALSE
    /\ tbar = NoBar
    /\ last_size = 0
    /\ tpc = "none"
    /\ progress = 0
    /\ since_update = 0
    /\ exc = "none"
    /\ main_err = "none"
    /\ exit_status = NotExited

----------------------------------------------------------------------------
(* main, lines 248-267 *)

\* main without the early return at line 257: the run goes on to the probe
main_no_input_continues ==
    /\ pc = "main_glob"
    /\ Len(mp4_files) = 0
    /\ pc' = "probe"
    /\ UNCHANGED <<pathVars, extractVars, fileVars, model_loaded, trackerVars,
                   pollerVars, errVars>>

\* lines 253-257: no *.mp4 file: report and return
main_no_input ==
    /\ pc = "main_glob"
    /\ Len(mp4_files) = 0
    /\ pc' = "no_input"
    /\ UNCHANGED <<pathVars, extractVars, fileVars, model_loaded, trackerVars,
                   pollerVars, errVars>>

\* main taking the last match, mp4_files[-1]
main_select_last ==
    /\ pc = "main_glob"
    /\ Len(mp4_files) > 0
    /\ video_path' = mp4_files[Len(mp4_files)]
    /\ audio_path' = <<Stem(mp4_files[Len(mp4_files)]), ".mp3">>
    /\ text_path' = <<Stem(mp4_files[Len(mp4_files)]), "_transcription.txt">>
    /\ pc' = "probe"
    /\ UNCHANGED <<mp4_files, extractVars, fileVars, model_loaded, trackerVars,
                   pollerVars, errVars>>

\* lines 259-267: warn when there are several, take mp4_files[0], derive the names
main_select ==
    /\ pc = "main_glob"
    /\ Len(mp4_files) > 0
    /\ video_path' = mp4_files[1]
    /\ audio_path' = <<Stem(mp4_files[1]), ".mp3">>
    /\ text_path' = <<Stem(mp4_files[1]), "_transcription.txt">>
    /\ pc' = "probe"
    /\ UNCHANGED <<mp4_files, extractVars, fileVars, model_loaded, trackerVars,
                   pollerVars, errVars>>

----------------------------------------------------------------------------
(* get_video_duration, lines 14-29, called at line 38 *)

\* get_video_duration without the except clause: the ValueError ends main
get_video_duration_raises ==
    /\ pc = "probe"
    /\ \E out \in ProbeOutputs :
          /\ probe_out' = out
          /\ IF ParseFloat(out).ok
             THEN /\ duration' = ParseFloat(out).val
                  /\ pc' = "ext_branch"
                  /\ main_err' = main_err
             ELSE /\ duration' = duration
                  /\ pc' = "failed"
                  /\ main_err' = "ValueError"
    /\ UNCHANGED <<pathVars, ebar, time_ms, ext_progress, pct_computed, fileVars,
                   model_loaded, trackerVars, pollerVars, exc, exit_status>>

get_video_duration ==
    /\ pc = "probe"
    /\ \E out \in ProbeOutputs :
          /\ probe_out' = out
          /\ duration' = IF ParseFloat(out).ok THEN ParseFloat(out).val ELSE 0
    /\ pc' = "ext_branch"
    /\ UNCHANGED <<pathVars, ebar, time_ms, ext_progress, pct_computed, fileVars,
                   model_loaded, trackerVars, pollerVars, errVars>>

----------------------------------------------------------------------------
(* extract_audio, lines 31-95 *)

\* line 39: duration <= 0, the unknown-duration branch
extract_unknown ==
    /\ pc = "ext_branch"
    /\ duration <= 0
    /\ pc' = "run_plain"
    /\ UNCHANGED <<pathVars, extractVars, fileVars, model_loaded, trackerVars,
                   pollerVars, errVars>>

\* line 50: subprocess.run(ffmpeg); the process writes the audio file or fails to
extract_run_plain ==
    /\ pc = "run_plain"
    /\ \E made \in BOOLEAN : audio_exists' = made
    /\ pc' = "check_file"
    /\ UNCHANGED <<pathVars, extractVars, marker, text_exists, model_loaded,
                   trackerVars, pollerVars, errVars>>

\* the branch test as "duration == 0": a negative duration takes the bar branch
extract_known_nonzero ==
    /\ pc = "ext_branch"
    /\ duration # 0
    /\ ebar' = NewBar
    /\ pc' = "feed"
    /\ UNCHANGED <<pathVars, probe_out, duration, time_ms, ext_progress,
                   pct_computed, fileVars, model_loaded, trackerVars, pollerVars,
                   errVars>>

\* lines 51-73: the bar is created and the process is started
extract_known ==
    /\ pc = "ext_branch"
    /\ duration > 0
    /\ ebar' = NewBar
    /\ pc' = "feed"
    /\ UNCHANGED <<pathVars, probe_out, duration, time_ms, ext_progress,
                   pct_computed, fileVars, model_loaded, trackerVars, pollerVars,
                   errVars>>

\* lines 76-84: one line of the progress feed
extract_feed_line ==
    /\ pc = "feed"
    /\ \E line \in FeedLines :
          IF line.key = "out_time_ms" /\ ParseFloat(line).ok
          THEN /\ time_ms' = ParseFloat(line).val
               /\ ext_progress' = ComputeProgress(ParseFloat(line).val, duration)
               /\ ebar' = tqdm_update(ebar,
                              ComputeProgress(ParseFloat(line).val, duration) - ebar.n)
               /\ pct_computed' = TRUE
          ELSE UNCHANGED <<time_ms, ext_progress, ebar, pct_computed>>
    /\ pc' = "feed"
    /\ UNCHANGED <<pathVars, probe_out, duration, fileVars, model_loaded,
                   trackerVars, pollerVars, errVars>>

\* the feed ends; line 87: process.wait()
extract_wait ==
    /\ pc = "feed"
    /\ \E made \in BOOLEAN : audio_exists' = made
    /\ pc' = "close_bar"
    /\ UNCHANGED <<pathVars, extractVars, marker, text_exists, model_loaded,
                   trackerVars, pollerVars, errVars>>

\* line 88: progress_bar.close()
extract_close_bar ==
    /\ pc = "close_bar"
    /\ ebar' = tqdm_close(ebar)
    /\ pc' = "check_file"
    /\ UNCHANGED <<pathVars, probe_out, duration, time_ms, ext_progress,
                   pct_computed, fileVars, model_loaded, trackerVars, pollerVars,
                   errVars>>

\* extract_check_file that only reports the missing file and returns
extract_check_file_returns ==
    /\ pc = "check_file"
    /\ pc' = "load_model"
    /\ probe_out' = [numeric |-> FALSE, text |-> "unset", val |-> 0]
    /\ duration' = NoValue
    /\ ebar' = NoBar
    /\ time_ms' = NoValue
    /\ ext_progress' = NoValue
    /\ pct_computed' = FALSE
    /\ UNCHANGED <<pathVars, fileVars, model_loaded, trackerVars, pollerVars,
                   errVars>>

\* lines 91-95: the artifact check: return, or sys.exit(1).  The locals of
\* extract_audio (duration, progress_bar, ...) go out of scope here.
extract_check_file ==
    /\ pc = "check_file"
    /\ pc' = IF audio_exists THEN "load_model" ELSE "exit1"
    /\ probe_out' = [numeric |-> FALSE, text |-> "unset", val |-> 0]
    /\ duration' = NoValue
    /\ ebar' = NoBar
    /\ time_ms' = NoValue
    /\ ext_progress' = NoValue
    /\ pct_computed' = FALSE
    /\ UNCHANGED <<pathVars, fileVars, model_loaded, trackerVars, pollerVars,
                   errVars>>

----------------------------------------------------------------------------
(* transcribe_audio, lines 189-246 *)

\* the exceptions (subclasses of Exception) the try block can raise
Exceptions == {"TranscribeError", "WriteError"}

\* the foreground is inside the try block, after start_tracking
TryStates == {"transcribe", "write_marker", "write_output", "stop_flag",
              "stop_close", "rm_marker", "ret"}
\* the foreground is inside the except block
HandlerStates == {"exc_stop_flag", "exc_stop_close", "exc_rm", "reraise"}
\* main has ended, one way or another
EndStates == {"no_input", "exit1", "done", "failed", "interrupted"}

\* lines 194-205: whisper.load_model, estimate_audio_duration
transcribe_load_model ==
    /\ pc = "load_model"
    /\ model_loaded' = TRUE
    /\ pc' = "rm_stale"
    /\ UNCHANGED <<pathVars, extractVars, fileVars, trackerVars, pollerVars, errVars>>

\* transcribe_audio without lines 209-210: a stale marker stays
transcribe_keep_stale ==
    /\ pc = "rm_stale"
    /\ pc' = "start_tracking"
    /\ UNCHANGED <<pathVars, extractVars, fileVars, model_loaded, trackerVars,
                   pollerVars, errVars>>

\* lines 208-210: a marker left by an earlier run is removed
transcribe_rm_stale ==
    /\ pc = "rm_stale"
    /\ marker' = "absent"
    /\ pc' = "start_tracking"
    /\ UNCHANGED <<pathVars, extractVars, audio_exists, text_exists, model_loaded,
                   trackerVars, pollerVars, errVars>>

\* lines 213-214 with 118-143: the tracker is built, the bar created and the
\* thread started; thread.start() may fail, which start_tracking swallows
start_tracking ==
    /\ pc = "start_tracking"
    /\ running' = TRUE
    /\ last_size' = 0
    /\ tbar' = NewBar
    /\ \E started \in BOOLEAN :
          tpc' = IF started THEN "loop" ELSE "none"
    /\ progress' = 0
    /\ since_update' = 0
    /\ pc' = "transcribe"
    /\ UNCHANGED <<pathVars, extractVars, fileVars, model_loaded, errVars>>

\* line 218: model.transcribe returns
transcribe_return ==
    /\ pc = "transcribe"
    /\ pc' = "write_marker"
    /\ UNCHANGED <<pathVars, extractVars, fileVars, model_loaded, trackerVars,
                   pollerVars, errVars>>

\* line 218: model.transcribe raises an Exception
transcribe_raise ==
    /\ pc = "transcribe"
    /\ exc' = "TranscribeError"
    /\ pc' = "exc_stop_flag"
    /\ UNCHANGED <<pathVars, extractVars, fileVars, model_loaded, trackerVars,
                   pollerVars, main_err, exit_status>>

\* lines 221-225: the marker file is written
transcribe_write_marker ==
    /\ pc = "write_marker"
    /\ marker' = "written"
    /\ pc' = "write_output"
    /\ UNCHANGED <<pathVars, extractVars, audio_exists, text_exists, model_loaded,
                   trackerVars, pollerVars, errVars>>

\* lines 228-229: the transcript is written, or the write raises
transcribe_write_output ==
    /\ pc = "write_output"
    /\ \E ok \in BOOLEAN :
          IF ok THEN /\ text_exists' = TRUE
                     /\ pc' = "stop_flag"
                     /\ exc' = exc
                ELSE /\ text_exists' = text_exists
                     /\ pc' = "exc_stop_flag"
                     /\ exc' = "WriteError"
    /\ UNCHANGED <<pathVars, extractVars, audio_exists, marker, model_loaded,
                   trackerVars, pollerVars, main_err, exit_status>>

\* line 185 (called from 232 and 242): self.running = False
stop_flag ==
    /\ pc \in {"stop_flag", "exc_stop_flag"}
    /\ running' = FALSE
    /\ pc' = IF pc = "stop_flag" THEN "stop_close" ELSE "exc_stop_close"
    /\ UNCHANGED <<pathVars, extractVars, fileVars, model_loaded, tbar, last_size,
                   pollerVars, errVars>>

\* stop() forcing the bar to 100 itself before closing it
stop_close_forces ==
    /\ pc \in {"stop_close", "exc_stop_close"}
    /\ tbar' = tqdm_close(tqdm_update(tbar, BarTotal - tbar.n))
    /\ pc' = IF pc = "stop_close" THEN "rm_marker" ELSE "exc_rm"
    /\ UNCHANGED <<pathVars, extractVars, fileVars, model_loaded, running, last_size,
                   pollerVars, errVars>>

\* lines 186-187: self.progress_bar.close()
stop_close ==
    /\ pc \in {"stop_close", "exc_stop_close"}
    /\ tbar' = tqdm_close(tbar)
    /\ pc' = IF pc = "stop_close" THEN "rm_marker" ELSE "exc_rm"
    /\ UNCHANGED <<pathVars, extractVars, fileVars, model_loaded, running, last_size,
                   pollerVars, errVars>>

\* lines 235-236 and 244-245: if os.path.exists(temp_file): os.remove(temp_file)
remove_marker ==
    /\ pc \in {"rm_marker", "exc_rm"}
    /\ marker' = "absent"
    /\ pc' = IF pc = "rm_marker" THEN "ret" ELSE "reraise"
    /\ UNCHANGED <<pathVars, extractVars, audio_exists, text_exists, model_loaded,
                   trackerVars, pollerVars, errVars>>

\* lines 238-239: return transcription
transcribe_ret ==
    /\ pc = "ret"
    /\ pc' = "summary"
    /\ UNCHANGED <<pathVars, extractVars, fileVars, model_loaded, trackerVars,
                   pollerVars, errVars>>

\* the except block without its final raise: transcribe_audio returns None
transcribe_swallow ==
    /\ pc = "reraise"
    /\ pc' = "summary"
    /\ UNCHANGED <<pathVars, extractVars, fileVars, model_loaded, trackerVars,
                   pollerVars, errVars>>

\* line 246: raise; main has no handler, so the error ends main
transcribe_reraise ==
    /\ pc = "reraise"
    /\ main_err' = exc
    /\ pc' = "failed"
    /\ UNCHANGED <<pathVars, extractVars, fileVars, model_loaded, trackerVars,
                   pollerVars, exc, exit_status>>

\* KeyboardInterrupt in the foreground while it is inside transcribe_audio:
\* a BaseException, which "except Exception" (line 241) does not catch
interrupt ==
    /\ pc \in TryStates \cup HandlerStates
    /\ main_err' = "KeyboardInterrupt"
    /\ pc' = "interrupted"
    /\ UNCHANGED <<pathVars, extractVars, fileVars, model_loaded, trackerVars,
                   pollerVars, exc, exit_status>>

\* lines 275-288: the completion summary
main_summary ==
    /\ pc = "summary"
    /\ pc' = "done"
    /\ UNCHANGED <<pathVars, extractVars, fileVars, model_loaded, trackerVars,
                   pollerVars, errVars>>

\* the interpreter exits; the daemon thread (line 137) dies with it
process_exit ==
    /\ pc \in EndStates
    /\ exit_status = NotExited
    /\ exit_status' = IF pc \in {"done", "no_input"} THEN 0
                      ELSE IF pc = "interrupted" THEN ExitInterrupt
                      ELSE ExitFailure
    /\ tpc' = IF tpc \in {"none", "done", "crashed"} THEN tpc ELSE "killed"
    /\ UNCHANGED <<pc, pathVars, extractVars, fileVars, model_loaded, trackerVars,
                   progress, since_update, exc, main_err>>

----------------------------------------------------------------------------
(* TranscriptionProgressTracker._track_progress, lines 145-179 *)

\* the thread is running
PollerLive == tpc \in {"loop", "sleep", "exists", "getsize", "heur", "final"}

\* os.path.getsize(temp_file) of an existing marker
SizeOf(m) == IF m = "written" THEN MarkerSize ELSE 1

\* lines 174-175: if progress > 100: progress = 100
clamp(p) == IF p > BarTotal THEN BarTotal ELSE p

\* the loop test with "or" for "and": while self.running or progress < 100
poll_loop_or ==
    /\ tpc = "loop"
    /\ exit_status = NotExited
    /\ tpc' = IF running \/ progress < BarTotal THEN "sleep" ELSE "final"
    /\ UNCHANGED <<pc, pathVars, extractVars, fileVars, model_loaded, trackerVars,
                   progress, since_update, errVars>>

\* line 153: while self.running and progress < 100
poll_loop ==
    /\ tpc = "loop"
    /\ exit_status = NotExited
    /\ tpc' = IF running /\ progress < BarTotal THEN "sleep" ELSE "final"
    /\ UNCHANGED <<pc, pathVars, extractVars, fileVars, model_loaded, trackerVars,
                   progress, since_update, errVars>>

\* line 154: time.sleep(0.5)
poll_sleep ==
    /\ tpc = "sleep"
    /\ exit_status = NotExited
    /\ \E k \in 1..MaxSleepTicks :
          since_update' = Min(since_update + k, HeuristicPeriod)
    /\ tpc' = "exists"
    /\ UNCHANGED <<pc, pathVars, extractVars, fileVars, model_loaded, trackerVars,
                   progress, errVars>>

\* line 157: if self.temp_file and os.path.exists(self.temp_file)
poll_exists ==
    /\ tpc = "exists"
    /\ exit_status = NotExited
    /\ tpc' = IF marker # "absent" THEN "getsize" ELSE "heur"
    /\ UNCHANGED <<pc, pathVars, extractVars, fileVars, model_loaded, trackerVars,
                   progress, since_update, errVars>>

\* the file-growth branch without line 162 (progress += 1)
poll_getsize_no_count ==
    /\ tpc = "getsize"
    /\ exit_status = NotExited
    /\ IF marker = "absent"
       THEN /\ tpc' = "crashed"
            /\ UNCHANGED <<last_size, progress, tbar>>
       ELSE /\ tpc' = "loop"
            /\ IF SizeOf(marker) > last_size
               THEN /\ last_size' = SizeOf(marker)
                    /\ progress' = progress
                    /\ tbar' = tqdm_update(tbar, 1)
               ELSE UNCHANGED <<last_size, progress, tbar>>
    /\ UNCHANGED <<pc, pathVars, extractVars, fileVars, model_loaded, running,
                   since_update, errVars>>

\* lines 158-163 and 174-175: the file-growth branch; os.path.getsize raises
\* when the file is gone, which ends the thread
poll_getsize ==
    /\ tpc = "getsize"
    /\ exit_status = NotExited
    /\ IF marker = "absent"
       THEN /\ tpc' = "crashed"
            /\ UNCHANGED <<last_size, progress, tbar>>
       ELSE /\ tpc' = "loop"
            /\ IF SizeOf(marker) > last_size
               THEN /\ last_size' = SizeOf(marker)
                    /\ progress' = clamp(progress + 1)
                    /\ tbar' = tqdm_update(tbar, 1)
               ELSE UNCHANGED <<last_size, progress, tbar>>
    /\ UNCHANGED <<pc, pathVars, extractVars, fileVars, model_loaded, running,
                   since_update, errVars>>

\* lines 165-171 and 174-175: the wall-clock branch
poll_heuristic ==
    /\ tpc = "heur"
    /\ exit_status = NotExited
    /\ IF since_update >= HeuristicPeriod
       THEN /\ progress' = clamp(progress + 1)
            /\ tbar' = tqdm_update(tbar, IF progress + 1 <= HeuristicCap THEN 1 ELSE 0)
            /\ since_update' = 0
       ELSE UNCHANGED <<progress, tbar, since_update>>
    /\ tpc' = "loop"
    /\ UNCHANGED <<pc, pathVars, extractVars, fileVars, model_loaded, running,
                   last_size, errVars>>

\* lines 178-179: self.progress_bar.update(100 - self.progress_bar.n)
poll_final ==
    /\ tpc = "final"
    /\ exit_status = NotExited
    /\ tbar' = tqdm_update(tbar, BarTotal - tbar.n)
    /\ tpc' = "done"
    /\ UNCHANGED <<pc, pathVars, extractVars, fileVars, model_loaded, running,
                   last_size, progress, since_update, errVars>>

----------------------------------------------------------------------------
Next ==
    \/ main_no_input
    \/ main_select
    \/ get_video_duration
    \/ extract_unknown
    \/ extract_run_plain
    \/ extract_known
    \/ extract_feed_line
    \/ extract_wait
    \/ extract_close_bar
    \/ extract_check_file
    \/ transcribe_load_model
    \/ transcribe_rm_stale
    \/ start_tracking
    \/ transcribe_return
    \/ transcribe_raise
    \/ transcribe_write_marker
    \/ transcribe_write_output
    \/ stop_flag
    \/ stop_close
    \/ remove_marker
    \/ transcribe_ret
    \/ transcribe_reraise
    \/ interrupt
    \/ main_summary
    \/ process_exit
    \/ poll_loop
    \/ poll_sleep
    \/ poll_exists
    \/ poll_getsize
    \/ poll_heuristic
    \/ poll_final

\* one step of the _track_progress thread
PollerStep ==
    \/ poll_loop
    \/ poll_sleep
    \/ poll_exists
    \/ poll_getsize
    \/ poll_heuristic
    \/ poll_final

Spec == Init /\ [][Next]_vars

\* the thread, once started, is scheduled again and again (time.sleep returns)
FairSpec == Spec /\ WF_vars(PollerStep)

----------------------------------------------------------------------------
(* Properties *)

\* control has left transcribe_audio by return or by an Exception
LeftTranscribe == {"summary", "done", "failed"}

\* C1: when control has left transcribe_audio (normal return or exception) the
\* _track_progress thread is no longer running.
C1_PollerStoppedOnExit == pc \in LeftTranscribe => ~PollerLive

\* C2: while model.transcribe has neither returned nor raised, the transcription
\* bar shows strictly less than 100.
C2_BelowTotalInFlight == pc = "transcribe" => tbar.n < BarTotal

\* C3: on every way transcribe_audio ends after the tracker was started (return,
\* exception, interrupt) the marker file does not exist.
C3_MarkerCleaned == pc \in LeftTranscribe \cup {"interrupted"} => marker = "absent"

\* C4: the displayed value of the extraction bar never decreases from one
\* update to the next, also when a marker is smaller than an earlier one
\* (stated for updates by non-negative markers, so that a decrease comes from
\* the order of the markers alone).
C4_ExtractionMonotonic ==
    [][(ebar.state = "open" /\ pct_computed' /\ time_ms' >= 0) => ebar'.n >= ebar.n]_vars

\* C5: the extraction bar and the transcription bar always show a value
\* within [0, 100].
C5_Bounded == /\ ebar.n >= 0 /\ ebar.n <= BarTotal
              /\ tbar.n >= 0 /\ tbar.n <= BarTotal

\* C6: when the extraction feed has ended and the bar is finalized (closed),
\* the extraction progress is 100, whatever the last marker gave and also when
\* no marker was received.  (In the unknown-duration branch there is no bar.)
C6_ForcedToTotal == ebar.state = "closed" => ebar.n = BarTotal

\* C7: if the try block of transcribe_audio raises an Exception, stop() has run
\* and the marker is gone before the error leaves transcribe_audio, the same
\* error reaches main, and the run never returns normally or reaches Done.
\* (A KeyboardInterrupt arriving inside the handler is a second, independent
\* event: it ends the run as "interrupted", not as "failed".)
C7_FailureCleanedAndReraised ==
    /\ pc \in {"reraise", "failed"} =>
          /\ exc \in Exceptions
          /\ ~running
          /\ tbar.state = "closed"
          /\ marker = "absent"
    /\ pc = "failed" => main_err = exc
    /\ exc \in Exceptions => pc \in HandlerStates \cup {"failed", "interrupted"}

C7_Witness == /\ pc = "failed"
              /\ exc = "TranscribeError"
              /\ main_err = "TranscribeError"
              /\ exit_status = ExitFailure

\* the foreground has not yet passed the artifact check of extract_audio
BeforeCheck == {"main_glob", "no_input", "probe", "ext_branch", "run_plain", "feed",
                "close_bar", "check_file"}

\* C8: if the audio file is missing after the extraction process exited, the run
\* ends by sys.exit(1) with a non-zero status and nothing of the transcription
\* stage happens: no model load, no poller, no bar, no marker or transcript written.
C8_MissingArtifactFatal ==
    /\ (~audio_exists /\ pc \notin BeforeCheck) => pc = "exit1"
    /\ pc = "exit1" =>
          /\ ~audio_exists
          /\ ~model_loaded
          /\ tpc = "none"
          /\ tbar = NoBar
          /\ marker # "written"
          /\ ~text_exists
          /\ exit_status \in {NotExited, ExitFailure}
          /\ ExitFailure # 0

C8_Witness == pc = "exit1" /\ ~audio_exists /\ exit_status = ExitFailure

\* the marker e lies within the media: 0 <= e / 1_000_000 <= d
InRange(e, d) == e >= 0 /\ e <= d * MicrosPerSecond

C9_Value ==
    (pc = "feed" /\ pct_computed /\ InRange(time_ms, duration)) =>
        /\ ext_progress =
              Min((time_ms * 100) \div (MicrosPerSecond * duration), 100)
        /\ (duration = 10 /\ time_ms = 0) => ext_progress = 0
        /\ (duration = 10 /\ time_ms = 2500000) => ext_progress = 25
        /\ (duration = 10 /\ time_ms = 5000000) => ext_progress = 50
        /\ (duration = 10 /\ time_ms = 10000000) => ext_progress = 100

C9_Step ==
    (/\ pc = "feed" /\ pc' = "feed"
     /\ pct_computed /\ pct_computed'
     /\ InRange(time_ms, duration) /\ InRange(time_ms', duration)
     /\ time_ms' >= time_ms) => ext_progress' >= ext_progress

ProbeFailed == ~probe_out.numeric /\ probe_out.text # "unset"

\* C10: after non-numeric or empty ffprobe output get_video_duration has
\* returned the sentinel 0 without raising, and extract_audio runs the plain
\* ffmpeg process up to the artifact check without raising, creating a bar or
\* computing a percentage.
C10_ProbeFailureNonFatal ==
    ProbeFailed =>
        /\ duration = 0
        /\ pc \in {"ext_branch", "run_plain", "check_file"}
        /\ ~pct_computed
        /\ ebar = NoBar
        /\ main_err = "none"
        /\ exc = "none"

C10_Witness == /\ ProbeFailed /\ probe_out.text = "N/A"
               /\ pc = "check_file" /\ audio_exists /\ duration = 0

\* C11: with zero matching video files the run ends at once in the no-input
\* state: the probe, the extraction and the transcription are never invoked,
\* no poller is started, and no audio, marker or transcript file is created.
C11_NoInputTouchesNothing ==
    Len(mp4_files) = 0 =>
        /\ pc \in {"main_glob", "no_input"}
        /\ video_path = "none"
        /\ probe_out.text = "unset"
        /\ duration = NoValue
        /\ ebar = NoBar
        /\ ~pct_computed
        /\ ~audio_exists
        /\ marker # "written"
        /\ ~text_exists
        /\ ~model_loaded
        /\ tpc = "none"
        /\ tbar = NoBar
        /\ exit_status \in {NotExited, 0}

C11_Witness == Len(mp4_files) = 0 /\ pc = "no_input" /\ exit_status = 0

\* C12: when one or several video files match, the run continues with the first
\* element of the enumeration, and the input and the output names
\* '<base>.mp3', '<base>_transcription.txt' are a function of the enumeration
\* alone (so two runs with the same enumeration agree).
C12_FirstMatchSelected ==
    /\ Len(mp4_files) >= 1 => pc # "no_input"
    /\ pc \notin {"main_glob", "no_input"} =>
          /\ Len(mp4_files) >= 1
          /\ video_path = mp4_files[1]
          /\ audio_path = <<Stem(mp4_files[1]), ".mp3">>
          /\ text_path = <<Stem(mp4_files[1]), "_transcription.txt">>

C12_Witness == /\ Len(mp4_files) = 2 /\ mp4_files[1] = "b.mp4"
               /\ pc = "done" /\ video_path = "b.mp4"
               /\ audio_path = <<"b", ".mp3">>
               /\ text_path = <<"b", "_transcription.txt">>

\* C13: the poller never reads the size of a marker that it saw exist and that
\* the foreground has removed in between (the stop signal is observed before
\* the marker file is deleted); os.path.getsize would raise and end the thread.
C13_NoSizeReadAfterRemoval == tpc # "crashed"

\* C14: at the moment stop() closes the transcription bar its value is 100.
C14_ClosedAtTotal == tbar.state = "closed" => tbar.n = BarTotal

\* the poller decides one iteration: the step out of "getsize" or "heur"
NoGrowth == \/ tpc = "heur"
            \/ tpc = "getsize" /\ marker # "absent" /\ SizeOf(marker) <= last_size

\* C15: in a poll iteration in which the marker has not grown (absent, or
\* present but unchanged) and at least one second has passed since the last
\* heuristic advance, the progress advances by one unit while below the cap.
C15_FallbackOnNoGrowth ==
    [][(/\ NoGrowth
        /\ tpc' = "loop"
        /\ since_update >= HeuristicPeriod
        /\ progress < HeuristicCap) => progress' = progress + 1]_vars

\* the poller is inside its while loop (lines 153-175)
InLoop == tpc \in {"loop", "sleep", "exists", "getsize", "heur"}

\* C16: under fair scheduling of the poller thread, once stop() has set
\* running to false the _track_progress loop is eventually left, from every
\* position the poller can be in when the flag is set.
C16_PollerLeavesLoop == (~running /\ InLoop) ~> ~InLoop

C16_Witness == ~running /\ tpc = "sleep" /\ pc \in {"stop_close", "exc_stop_close"}

\* C17: only the polling task changes the value of the transcription bar (the
\* foreground, stop() included, leaves it unchanged), the bar starts at 0, and
\* no change lowers the value.
C17_SingleWriterMonotonic ==
    [][/\ tbar'.n >= tbar.n
       /\ tbar'.n # tbar.n => (pc' = pc /\ PollerLive /\ tpc' # tpc)
       /\ (tbar.state = "none" /\ tbar'.state # "none") => tbar'.n = 0]_vars

C17_Witness == pc = "transcribe" /\ tbar.state = "open" /\ tbar.n = 3 /\ progress = 3

\* C18: while model.transcribe is in flight the marker file does not exist, the
\* poller is never in the file-growth branch, and every advance of the
\* progress made then comes from the wall-clock branch.
C18_HeuristicOnlyInFlight ==
    /\ [](pc = "transcribe" => (marker = "absent" /\ tpc # "getsize" /\ last_size = 0))
    /\ [][(pc = "transcribe" /\ progress' # progress)
             => (tpc = "heur" /\ marker = "absent")]_vars
    /\ [][(pc = "transcribe" /\ tbar'.n # tbar.n) => tpc \in {"heur", "final"}]_vars

C18_Witness == pc = "transcribe" /\ progress = 2 /\ tbar.n = 2 /\ marker = "absent"

\* C19: inside the poller's loop the bar value never exceeds the internal
\* counter, the counter stays within [0, 100], and with the flag still set the
\* loop test fails exactly when the counter has reached 100.
C19_BarBelowCounter ==
    /\ [](InLoop => (tbar.n <= progress /\ progress >= 0 /\ progress <= BarTotal))
    /\ [][(tpc = "loop" /\ running /\ tpc' \in {"sleep", "final"})
             => (tpc' = "final" <=> progress = BarTotal)]_vars

C19_Witness == tpc = "final" /\ running /\ progress = BarTotal /\ tbar.n = HeuristicCap

\* the foreground is inside extract_audio, after the probe
InExtract == pc \in {"ext_branch", "run_plain", "feed", "close_bar", "check_file"}

\* C20: the percentage is computed only with a duration > 0; a probed duration
\* of 0 or less takes the same branch as a failed probe: plain ffmpeg, no bar.
C20_NoDivisionByNonPositive ==
    /\ pct_computed => duration > 0
    /\ pc \in {"feed", "close_bar"} => duration > 0
    /\ pc = "run_plain" => duration <= 0
    /\ (InExtract /\ duration <= 0) =>
          (pc \in {"ext_branch", "run_plain", "check_file"} /\ ebar = NoBar)

C20_Witness == /\ probe_out.numeric /\ probe_out.val = -1
               /\ pc = "check_file" /\ duration = -1 /\ ebar = NoBar

====
